---- MODULE Spec2Model ----
(***************************************************************************)
(* A model of the OneEpay client of src/src/index.ts (lines 6-207): one    *)
(* client instance (clientId, clientSecret, accessToken, signature) and    *)
(* the createTransaction / completeTransaction calls made on it.  A call   *)
(* is an async function; it is modelled by its position (pc) between the   *)
(* points where it awaits: the authenticate request, the return of         *)
(* authenticate, the validation promise and the submit request.            *)
(*                                                                         *)
(* JavaScript values are tagged records, so that `a || b`, property        *)
(* access, string coercion and the validation rules see the type of a      *)
(* value as the code does.  Strings are TLA+ strings.                      *)
(***************************************************************************)
EXTENDS Integers, Sequences, FiniteSets, TLC

VARIABLES clientId, clientSecret, accessToken, signature,
          pc, kind, options, held, sent, steps, caught, outcome

client == <<clientId, clientSecret, accessToken, signature>>
vars == <<clientId, clientSecret, accessToken, signature,
          pc, kind, options, held, sent, steps, caught, outcome>>

(***************************************************************************)
(* JavaScript values                                                       *)
(***************************************************************************)
Undef == [t |-> "undefined"]
Str(s) == [t |-> "string", s |-> s]
Num(n) == [t |-> "number", n |-> n]
Obj(fields) == [t |-> "object", o |-> fields]
Arr(elems) == [t |-> "array", a |-> elems]
NoFields == [k \in {} |-> Undef]

\* NaN, the number that undefined converts to
NaN == [t |-> "NaN"]

\* an expression that throws instead of giving a value.  A TypeError has no
\* response property; the text of its message is the engine's.
Throw(error) == [t |-> "throw", error |-> error]
TypeErrorReading(key) ==
  Throw([name |-> "TypeError",
         message |-> "Cannot read properties of undefined (reading '" \o key \o "')",
         response |-> Undef])

\* destructuring `const { key, ... } = source` when the value is undefined
TypeErrorDestructuring(key, source) ==
  Throw([name |-> "TypeError",
         message |-> "Cannot destructure property '" \o key \o "' of '" \o source
                     \o "' as it is undefined.",
         response |-> Undef])

\* v.key: reading a property of undefined throws a TypeError; a string and an
\* array have a length; a property that is not there is undefined.
Get(v, key) ==
  IF v.t = "throw" THEN v
  ELSE IF v.t = "undefined" THEN TypeErrorReading(key)
  ELSE IF v.t = "object" /\ key \in DOMAIN v.o THEN v.o[key]
  ELSE IF v.t = "array" /\ key = "length" THEN Num(Len(v.a))
  ELSE IF v.t = "string" /\ key = "length" THEN Num(Len(v.s))
  ELSE Undef

\* lodash-style get along a dotted path, given as the sequence of its keys:
\* undefined, without a throw, when a value on the way is undefined.
RECURSIVE GetPath(_, _)
GetPath(v, path) ==
  IF path = <<>> THEN v
  ELSE IF v.t = "undefined" THEN Undef
  ELSE GetPath(Get(v, Head(path)), Tail(path))

\* the dotted name of a path: <<"a", "b">> is "a.b"
RECURSIVE FieldName(_)
FieldName(path) ==
  IF Len(path) = 1 THEN Head(path)
  ELSE Head(path) \o "." \o FieldName(Tail(path))

\* ToBoolean
Truthy(v) ==
  CASE v.t = "undefined" -> FALSE
    [] v.t = "string" -> v.s # ""
    [] v.t = "number" -> v.n # 0
    [] v.t = "NaN" -> FALSE
    [] OTHER -> TRUE

\* a || b
OrElse(a, b) == IF Truthy(a) THEN a ELSE b

\* ToString, as template literals and + apply it: an array is its elements
\* joined by commas (an undefined element gives the empty string), any other
\* object is "[object Object]"
RECURSIVE ToStr(_)
RECURSIVE JoinElements(_)
JoinElements(elems) ==
  IF elems = <<>> THEN ""
  ELSE (IF Head(elems).t = "undefined" THEN "" ELSE ToStr(Head(elems)))
       \o (IF Len(elems) = 1 THEN "" ELSE "," \o JoinElements(Tail(elems)))
ToStr(v) ==
  CASE v.t = "string" -> v.s
    [] v.t = "number" -> ToString(v.n)
    [] v.t = "NaN" -> "NaN"
    [] v.t = "undefined" -> "undefined"
    [] v.t = "array" -> JoinElements(v.a)
    [] OTHER -> "[object Object]"

\* a + b: string concatenation when an operand is a string or converts to
\* one (an object, an array); numeric addition otherwise, which gives NaN
\* when an operand is undefined or NaN
ConvertsToString(v) == v.t \in {"string", "object", "array"}
Plus(a, b) ==
  IF a.t = "throw" THEN a
  ELSE IF b.t = "throw" THEN b
  ELSE IF ConvertsToString(a) \/ ConvertsToString(b) THEN Str(ToStr(a) \o ToStr(b))
  ELSE IF a.t = "number" /\ b.t = "number" THEN Num(a.n + b.n)
  ELSE NaN

(***************************************************************************)
(* crypto.createHash('sha1').update(data).digest('base64').  SHA-1 is      *)
(* modelled as a collision-free symbolic digest of the hashed string: two  *)
(* digests are equal exactly when the hashed strings are.                  *)
(***************************************************************************)
Sha1Base64(data) == "sha1-base64(" \o data \o ")"

(***************************************************************************)
(* Validation: indicative.validate(options, rules, messages).  The rule    *)
(* strings of the source ('required|string|is_money') are given parsed,    *)
(* in the source's order: a field's path and its rules, each a name with   *)
(* its arguments.  A message template is '{{field}}' followed by a text;   *)
(* it is kept as that text.                                                *)
(***************************************************************************)
Rule(name) == [name |-> name, args |-> <<>>]
RuleWith(name, args) == [name |-> name, args |-> args]
Field(path, rules) == [path |-> path, rules |-> rules]

PaymentCodes == <<"ABA", "ACD", "PNG", "WIG", "WIG_VPN">>

CreateRules ==
  << Field(<<"UID">>, <<Rule("required"), Rule("string")>>),
     Field(<<"totalAmount">>, <<Rule("required"), Rule("string"), Rule("is_money")>>),
     Field(<<"totalQuantity">>, <<Rule("required"), Rule("integer")>>),
     Field(<<"paymentCode">>, <<Rule("required"), RuleWith("in", PaymentCodes)>>),
     Field(<<"paymentOptions">>, <<Rule("required"), Rule("object")>>),
     Field(<<"paymentOptions", "accountType">>,
           <<RuleWith("required_when", <<"paymentCode", "ACD">>)>>),
     Field(<<"paymentOptions", "account">>,
           <<RuleWith("required_when", <<"paymentCode", "ACD">>)>>),
     Field(<<"paymentOptions", "paygoId">>,
           <<RuleWith("required_when", <<"paymentCode", "PNG">>)>>),
     Field(<<"paymentOptions", "wingAccount">>,
           <<RuleWith("required_when", <<"paymentCode", "WIG_VPN">>), Rule("string")>>),
     Field(<<"paymentOptions", "wingSecurityCode">>,
           <<RuleWith("required_when", <<"paymentCode", "WIG_VPN">>), Rule("string")>>) >>

CreateMessages ==
  ("required" :> " field is missing.") @@
  ("string" :> " must be a string.") @@
  ("integer" :> " must be an integer.") @@
  ("is_money" :> " contains invalid amount.") @@
  ("object" :> " must be an object.") @@
  ("required_when" :> " field is missing.") @@
  ("paymentCode.in" :> " must be of value ABA, ACD, PNG, WIG, or WIG_VPN.")

CompleteRules ==
  << Field(<<"UID">>, <<Rule("required"), Rule("string")>>),
     Field(<<"totalAmount">>, <<Rule("required"), Rule("string"), Rule("is_money")>>),
     Field(<<"totalQuantity">>, <<Rule("required"), Rule("integer")>>),
     Field(<<"txid">>, <<Rule("required")>>),
     Field(<<"securityCode">>, <<Rule("required")>>) >>

CompleteMessages ==
  ("required" :> " field is missing.") @@
  ("string" :> " must be a string.") @@
  ("integer" :> " must be an integer.") @@
  ("is_money" :> " contains invalid amount.")

\* /^[0-9]*\.[0-9]{2}$/.test(s)
Digits == {"0", "1", "2", "3", "4", "5", "6", "7", "8", "9"}
AllDigits(s) == \A i \in 1..Len(s) : SubSeq(s, i, i) \in Digits
MoneyRegexTest(s) ==
  /\ Len(s) >= 3
  /\ AllDigits(SubSeq(s, 1, Len(s) - 3))
  /\ SubSeq(s, Len(s) - 2, Len(s) - 2) = "."
  /\ AllDigits(SubSeq(s, Len(s) - 1, Len(s)))

\* the custom rule: a falsy value is skipped, anything else must match
isMoney(data, path) ==
  LET fieldValue == GetPath(data, path)
  IN  IF ~Truthy(fieldValue) THEN TRUE ELSE MoneyRegexTest(ToStr(fieldValue))

\* indicative's notion of a value that exists (the type rules skip one that
\* does not) and of an empty value (what `required` rejects): undefined, the
\* empty string, and an object or array without entries.
Existy(v) == v.t # "undefined" /\ (v.t = "string" => v.s # "")
Empty(v) ==
  \/ ~Existy(v)
  \/ v.t = "object" /\ DOMAIN v.o = {}
  \/ v.t = "array" /\ v.a = <<>>

InArgs(s, args) == \E i \in 1..Len(args) : args[i] = s

\* whether one rule of one field passes
RulePasses(data, path, rule) ==
  LET v == GetPath(data, path)
  IN  CASE rule.name = "required" -> ~Empty(v)
        [] rule.name = "string" -> ~Existy(v) \/ v.t = "string"
        [] rule.name = "integer" -> ~Existy(v) \/ v.t = "number"
        [] rule.name = "object" -> ~Existy(v) \/ v.t = "object"
        [] rule.name = "in" ->
             ~Existy(v) \/ (v.t = "string" /\ InArgs(v.s, rule.args))
        [] rule.name = "required_when" ->
             LET other == GetPath(data, <<rule.args[1]>>)
             IN  (other.t = "string" /\ other.s = rule.args[2]) => ~Empty(v)
        [] rule.name = "is_money" -> isMoney(data, path)

\* the message of a failed rule: the field's own message for the rule, else
\* the rule's, with {{field}} replaced by the field's dotted path
MessageFor(messages, path, rule) ==
  LET field == FieldName(path)
      own == field \o "." \o rule.name
  IN  IF own \in DOMAIN messages THEN field \o messages[own]
      ELSE IF rule.name \in DOMAIN messages THEN field \o messages[rule.name]
      ELSE rule.name \o " validation failed on " \o field

\* the rules of all fields, one after the other, in declaration order
RECURSIVE FieldChecks(_, _)
FieldChecks(path, rules) ==
  IF rules = <<>> THEN <<>>
  ELSE <<[path |-> path, rule |-> Head(rules)]>> \o FieldChecks(path, Tail(rules))

RECURSIVE Checks(_)
Checks(ruleset) ==
  IF ruleset = <<>> THEN <<>>
  ELSE FieldChecks(Head(ruleset).path, Head(ruleset).rules) \o Checks(Tail(ruleset))

\* RunChecks as it would be if every check ran and the last failure were kept
RECURSIVE RunChecksKeepingLast(_, _, _)
RunChecksKeepingLast(data, checks, messages) ==
  IF checks = <<>> THEN <<>>
  ELSE LET later == RunChecksKeepingLast(data, Tail(checks), messages)
       IN  IF later # <<>> THEN later
           ELSE IF RulePasses(data, Head(checks).path, Head(checks).rule) THEN <<>>
           ELSE << [field |-> FieldName(Head(checks).path),
                    validation |-> Head(checks).rule.name,
                    message |-> MessageFor(messages, Head(checks).path,
                                           Head(checks).rule)] >>

\* run the checks in order and stop at the first that fails: the errors the
\* promise rejects with (none when it resolves)
RECURSIVE RunChecks(_, _, _)
RunChecks(data, checks, messages) ==
  IF checks = <<>> THEN <<>>
  ELSE IF RulePasses(data, Head(checks).path, Head(checks).rule)
       THEN RunChecks(data, Tail(checks), messages)
       ELSE << [field |-> FieldName(Head(checks).path),
                validation |-> Head(checks).rule.name,
                message |-> MessageFor(messages, Head(checks).path, Head(checks).rule)] >>

IndicativeValidate(data, ruleset, messages) ==
  RunChecks(data, Checks(ruleset), messages)

\* validateCreateTransaction / validateCompleteTransaction: the error each
\* throws, or "none".  Every options value of the model is an object.
NewError(name, message) == [name |-> name, message |-> message]
NoError == [name |-> "none"]

validateCreateTransaction(opts) ==
  IF opts.t \notin {"object", "array"}
  THEN NewError("CreateTransactionError", "Invalid argument type.")
  ELSE LET errors == IndicativeValidate(opts, CreateRules, CreateMessages)
       IN  IF errors = <<>> THEN NoError
           ELSE NewError("CreateTransactionError", errors[1].message)

validateCompleteTransaction(opts) ==
  IF opts.t \notin {"object", "array"}
  THEN NewError("CompleteTransactionError", "Invalid argument type.")
  ELSE LET errors == IndicativeValidate(opts, CompleteRules, CompleteMessages)
       IN  IF errors = <<>> THEN NoError
           ELSE NewError("CompleteTransactionError", errors[1].message)

(***************************************************************************)
(* handleOneEpayError(error): the error it throws.  An error caught from   *)
(* axios is [name, message, response]; response is undefined for a pure    *)
(* transport failure and an object holding the response body otherwise.    *)
(***************************************************************************)
AxiosError(message, response) ==
  [name |-> "AxiosError", message |-> message, response |-> response]
Response(data) == Obj([data |-> data])

\* v[0]: the first element of an array, the first character of a string, the
\* property "0" of an object; a TypeError when v is undefined
First(v) ==
  IF v.t = "throw" THEN v
  ELSE IF v.t = "undefined" THEN TypeErrorReading("0")
  ELSE IF v.t = "array" /\ v.a # <<>> THEN v.a[1]
  ELSE IF v.t = "string" /\ v.s # "" THEN Str(SubSeq(v.s, 1, 1))
  ELSE IF v.t = "object" /\ "0" \in DOMAIN v.o THEN v.o["0"]
  ELSE Undef

\* the message of new Error(v)
ErrorMessage(v) == IF v.t = "undefined" THEN "" ELSE ToStr(v)

\* An error without a response (a transport failure, or a TypeError thrown in
\* the try block) is thrown again.  Reading errors, message and reason of a
\* response without data throws a TypeError (line 148, a destructuring; the
\* text is that of the source run as written), and so does reading
\* the message of errors[0] when errors has a length but no first entry.
handleOneEpayError(error) ==
  IF "response" \notin DOMAIN error \/ ~Truthy(error.response) THEN error
  ELSE LET data == Get(error.response, "data")
           errors == Get(data, "errors")
           message == Get(data, "message")
           reason == Get(data, "reason")
           first == Get(First(errors), "message")
       IN  IF data.t = "undefined"
           THEN TypeErrorDestructuring("errors", "error.response.data").error
           ELSE IF Truthy(errors) /\ Truthy(Get(errors, "length"))
           THEN IF first.t = "throw" THEN first.error
                ELSE NewError("Error", ErrorMessage(first))
           ELSE IF Truthy(message) /\ Truthy(reason)
           THEN NewError("Error", ToStr(message) \o " " \o ToStr(reason))
           ELSE IF Truthy(message)
           THEN NewError("Error", ErrorMessage(message))
           ELSE error

(***************************************************************************)
(* makeSignature: the string that is hashed and the value it stores in     *)
(* this.signature.                                                         *)
(***************************************************************************)
\* SignatureData as it would be without the ip
SignatureDataWithoutIp(UID, totalAmount, totalQuantity, ip, id, secret) ==
  ToStr(Plus(Plus(Plus(Plus(UID, totalAmount), totalQuantity), Str(id)), Str(secret)))

SignatureData(UID, totalAmount, totalQuantity, ip, id, secret) ==
  ToStr(Plus(Plus(Plus(Plus(Plus(UID, totalAmount), totalQuantity), ip),
                  Str(id)), Str(secret)))

\* makeSignature as it would be if a stored signature were kept
makeSignatureOnce(o) ==
  IF Truthy(signature) THEN signature
  ELSE Str(Sha1Base64(SignatureData(o.UID, o.totalAmount, o.totalQuantity, o.ip,
                                    clientId, clientSecret)))

makeSignature(o) ==
  Str(Sha1Base64(SignatureData(o.UID, o.totalAmount, o.totalQuantity, o.ip,
                               clientId, clientSecret)))

(***************************************************************************)
(* The requests.  A request is [url, data, headers]; the url is kept       *)
(* without the client's apiURL.                                            *)
(***************************************************************************)
AuthUrl == "/v1/oauth/access-token"
CreateUrl == "/v1/payments/transactions"
CommitUrl == "/v1/payments/transactions/commit"

\* authenticate, up to its await: the request it posts
AuthRequest ==
  [url |-> AuthUrl,
   data |-> [client_id |-> Str(clientId), permission |-> Str("client_credentials")],
   headers |-> ("authentication" :> Sha1Base64(clientId \o ":" \o clientSecret))]

\* `Bearer ${this.accessToken}`
Bearer(token) == "Bearer " \o ToStr(token)

\* createTransaction, lines 27-47: the values derived from the options
CreateOrderName(opts) == Plus(Plus(Str("Order #"), Get(opts, "UID")), Str("."))
CreateTotalAmt(opts) == Str(ToStr(Get(opts, "totalAmount")))
CreateIp(opts) == OrElse(Get(opts, "ip"), Str("Unknown IP"))
CreateDescription(opts) == OrElse(Get(opts, "description"), CreateOrderName(opts))
\* items as the clients without validation build it (src/unnamed/part_000,
\* lines 62-64, and the second class of index.ts, lines 376-378): the default
\* item carries the order's quantity
CreateItemsOrderQuantity(opts) ==
  OrElse(Get(opts, "items"),
         Arr(<< Obj([name |-> CreateOrderName(opts),
                     qty |-> Get(opts, "totalQuantity"),
                     unit_price |-> Get(opts, "totalAmount")]) >>))

\* CreateItems as it would be if the default item were named by the
\* description
CreateItemsNamedByDescription(opts) ==
  OrElse(Get(opts, "items"),
         Arr(<< Obj([name |-> CreateDescription(opts),
                     qty |-> Num(1),
                     unit_price |-> Get(opts, "totalAmount")]) >>))

\* items (lines 45-47): any truthy options.items, an empty list included, is
\* kept; the default is one item named by the order name, with qty 1
CreateItems(opts) ==
  OrElse(Get(opts, "items"),
         Arr(<< Obj([name |-> CreateOrderName(opts),
                     qty |-> Num(1),
                     unit_price |-> Get(opts, "totalAmount")]) >>))
\* payment_options (lines 32-38); reading options.paymentOptions.account
\* throws when options.paymentOptions is undefined
CreatePaymentOptions(opts) ==
  LET po == Get(opts, "paymentOptions")
  IN  IF po.t = "undefined" THEN Get(po, "account")
      ELSE
      Obj([account |-> Get(po, "account"),
           account_type |-> Get(po, "accountType"),
           point_id |-> Get(po, "paygoId"),
           wing_account |-> Get(po, "wingAccount"),
           wing_security_code |-> Get(po, "wingSecurityCode")])

CreateSignatureOptions(opts) ==
  [UID |-> Get(opts, "UID"), totalAmount |-> CreateTotalAmt(opts),
   totalQuantity |-> Get(opts, "totalQuantity"), ip |-> CreateIp(opts)]

\* CreateRequest as it would be if the body took this.signature as the client
\* held it before this call's makeSignature ran
CreateRequestStoredSignature(opts, sig, token) ==
  [url |-> CreateUrl,
   data |-> [order_id |-> Get(opts, "UID"),
             description |-> CreateDescription(opts),
             total_amt |-> CreateTotalAmt(opts),
             total_qty |-> Get(opts, "totalQuantity"),
             currency_code |-> Str("USD"),
             signature |-> signature,
             payment_code |-> Get(opts, "paymentCode"),
             payment_options |-> CreatePaymentOptions(opts),
             items |-> CreateItems(opts),
             customer |-> Obj([ip |-> CreateIp(opts),
                               latitude |-> OrElse(Get(opts, "lat"), Str("Unknown Latitude")),
                               longitude |-> OrElse(Get(opts, "lng"), Str("Unknown Longitude")),
                               udid |-> OrElse(Get(opts, "deviceUDID"),
                                               Str("Unknown Device UDID"))])],
   headers |-> ("X-Auth" :> Bearer(token))]

\* the request createTransaction posts, given this.signature and
\* this.accessToken as they are when axios.post is called
CreateRequest(opts, sig, token) ==
  [url |-> CreateUrl,
   data |-> [order_id |-> Get(opts, "UID"),
             description |-> CreateDescription(opts),
             total_amt |-> CreateTotalAmt(opts),
             total_qty |-> Get(opts, "totalQuantity"),
             currency_code |-> Str("USD"),
             signature |-> sig,
             payment_code |-> Get(opts, "paymentCode"),
             payment_options |-> CreatePaymentOptions(opts),
             items |-> CreateItems(opts),
             customer |-> Obj([ip |-> CreateIp(opts),
                               latitude |-> OrElse(Get(opts, "lat"), Str("Unknown Latitude")),
                               longitude |-> OrElse(Get(opts, "lng"), Str("Unknown Longitude")),
                               udid |-> OrElse(Get(opts, "deviceUDID"),
                                               Str("Unknown Device UDID"))])],
   headers |-> ("X-Auth" :> Bearer(token))]

\* completeTransaction, lines 89-104
CompleteSignatureOptions(opts) ==
  [UID |-> Get(opts, "UID"), totalAmount |-> Get(opts, "totalAmount"),
   totalQuantity |-> Get(opts, "totalQuantity"),
   ip |-> OrElse(Get(opts, "ip"), Str("Unknown IP"))]

CompleteRequest(opts, sig, token) ==
  [url |-> CommitUrl,
   data |-> [txid |-> Get(opts, "txid"),
             signature |-> sig,
             security_code |-> Get(opts, "securityCode"),
             ip |-> OrElse(Get(opts, "ip"), Str("Unknown IP"))],
   headers |-> ("X-Auth" :> Bearer(token))]

(***************************************************************************)
(* The calls.  Calls is the set of the createTransaction and               *)
(* completeTransaction calls made on the client, in any order and          *)
(* overlapping in any way; pc is where a call stands:                      *)
(*   idle            the call has not been made yet                        *)
(*   authenticating  authenticate() awaits the token request               *)
(*   authenticated   authenticate() has returned; the caller's await has   *)
(*                   not resumed yet                                       *)
(*   rejected        authenticate() has thrown out of its catch block; the *)
(*                   caller's await has not resumed yet                    *)
(*   validating      the call awaits the validation promise                *)
(*   submitting      the call awaits the transaction request               *)
(*   completed       the call returned the response                        *)
(*   failed          the call threw                                        *)
(* held, steps and caught record, for the properties, this.accessToken as  *)
(* it was when the call entered, the steps the call has taken and the      *)
(* error its catch block received.                                         *)
(***************************************************************************)
MaxCalls == 2
Calls == 1..MaxCalls

Pending == [kind |-> "pending"]
Returned(data) == [kind |-> "returned", data |-> data]
Thrown(error) == [kind |-> "thrown", error |-> error]

NoCall ==
  [pc |-> "idle", kind |-> "none", options |-> Undef, held |-> Undef,
   sent |-> <<>>, steps |-> <<>>, caught |-> NoError, outcome |-> Pending]

MissingAuthentication(k) ==
  NewError(IF k = "create" THEN "CreateTransactionError" ELSE "CompleteTransactionError",
           "Missing authentication. Did you call authenticate first?")

\* Enter as it would be if authenticate() were called only without a token
EnterReusingToken(c, k, opts) ==
  /\ pc[c] = "idle"
  /\ pc' = [pc EXCEPT ![c] = IF Truthy(accessToken) THEN "authenticated"
                              ELSE "authenticating"]
  /\ kind' = [kind EXCEPT ![c] = k]
  /\ options' = [options EXCEPT ![c] = opts]
  /\ held' = [held EXCEPT ![c] = accessToken]
  /\ sent' = [sent EXCEPT ![c] = IF Truthy(accessToken) THEN <<>> ELSE <<AuthRequest>>]
  /\ steps' = [steps EXCEPT ![c] = IF Truthy(accessToken) THEN <<>>
                                    ELSE <<"authenticate">>]
  /\ UNCHANGED <<client, caught, outcome>>

\* the call enters and runs authenticate() up to its await (lines 16-20,
\* 114-132; lines 77-81 for completeTransaction)
Enter(c, k, opts) ==
  /\ pc[c] = "idle"
  /\ pc' = [pc EXCEPT ![c] = "authenticating"]
  /\ kind' = [kind EXCEPT ![c] = k]
  /\ options' = [options EXCEPT ![c] = opts]
  /\ held' = [held EXCEPT ![c] = accessToken]
  /\ sent' = [sent EXCEPT ![c] = <<AuthRequest>>]
  /\ steps' = [steps EXCEPT ![c] = <<"authenticate">>]
  /\ UNCHANGED <<client, caught, outcome>>

createTransaction(c, opts) == Enter(c, "create", opts)

completeTransaction(c, opts) == Enter(c, "complete", opts)

\* the token request succeeds: authenticate() stores the token and returns
AuthenticateResolves(c, data) ==
  /\ pc[c] = "authenticating"
  /\ LET token == Get(data, "access_token")
     IN  IF token.t = "throw"
         THEN /\ pc' = [pc EXCEPT ![c] = "rejected"]
              /\ caught' = [caught EXCEPT ![c] = token.error]
              /\ UNCHANGED accessToken
         ELSE /\ accessToken' = token
              /\ pc' = [pc EXCEPT ![c] = "authenticated"]
              /\ UNCHANGED caught
  /\ UNCHANGED <<clientId, clientSecret, signature,
                 kind, options, held, sent, steps, outcome>>

\* AuthenticateRejects as it would be if a failed token request also dropped
\* the stored token
AuthenticateRejectsDroppingToken(c, error) ==
  /\ pc[c] = "authenticating"
  /\ pc' = [pc EXCEPT ![c] = "rejected"]
  /\ accessToken' = Undef
  /\ caught' = [caught EXCEPT ![c] = error]
  /\ UNCHANGED <<clientId, clientSecret, signature,
                 kind, options, held, sent, steps, outcome>>

\* the token request fails: authenticate()'s catch block receives the error
\* and handleOneEpayError throws out of authenticate() (lines 135-137)
AuthenticateRejects(c, error) ==
  /\ pc[c] = "authenticating"
  /\ pc' = [pc EXCEPT ![c] = "rejected"]
  /\ caught' = [caught EXCEPT ![c] = error]
  /\ UNCHANGED <<client, kind, options, held, sent, steps, outcome>>

\* the call resumes after `await this.authenticate()` with the error that
\* authenticate() threw, and throws it to its caller (lines 20, 81)
AuthenticateThrown(c) ==
  /\ pc[c] = "rejected"
  /\ pc' = [pc EXCEPT ![c] = "failed"]
  /\ outcome' = [outcome EXCEPT ![c] = Thrown(handleOneEpayError(caught[c]))]
  /\ UNCHANGED <<client, kind, options, held, sent, steps, caught>>

\* the call resumes after `await this.authenticate()`: the token check, then
\* the call of the validator (lines 22-23, 83-87)
AfterAuthenticate(c) ==
  /\ pc[c] = "authenticated"
  /\ IF ~Truthy(accessToken)
     THEN /\ pc' = [pc EXCEPT ![c] = "failed"]
          /\ outcome' = [outcome EXCEPT ![c] = Thrown(MissingAuthentication(kind[c]))]
          /\ UNCHANGED steps
     ELSE /\ pc' = [pc EXCEPT ![c] = "validating"]
          /\ steps' = [steps EXCEPT ![c] = Append(@, "validate")]
          /\ UNCHANGED outcome
  /\ UNCHANGED <<client, kind, options, held, sent, caught>>

\* CreateValidated as it would be if the validation error were not thrown
CreateValidatedUnchecked(c) ==
  /\ pc[c] = "validating"
  /\ kind[c] = "create"
  /\ LET sig == makeSignature(CreateSignatureOptions(options[c]))
     IN  /\ signature' = sig
         /\ sent' = [sent EXCEPT ![c] =
                       Append(@, CreateRequest(options[c], sig, accessToken))]
         /\ steps' = [steps EXCEPT ![c] = @ \o <<"sign", "submit">>]
         /\ pc' = [pc EXCEPT ![c] = "submitting"]
         /\ UNCHANGED outcome
  /\ UNCHANGED <<clientId, clientSecret, accessToken, kind, options, held, caught>>

\* the validation promise settles.  Rejected: the call throws the validation
\* error.  Resolved: the call derives the defaults, signs and posts the
\* request, all before its next await (lines 25-67); a TypeError thrown on
\* the way is caught at line 72 and passed to handleOneEpayError.
CreateValidated(c) ==
  /\ pc[c] = "validating"
  /\ kind[c] = "create"
  /\ LET error == validateCreateTransaction(options[c])
         payment_options == CreatePaymentOptions(options[c])
         sig == makeSignature(CreateSignatureOptions(options[c]))
     IN  IF error # NoError
         THEN /\ pc' = [pc EXCEPT ![c] = "failed"]
              /\ outcome' = [outcome EXCEPT ![c] = Thrown(error)]
              /\ UNCHANGED <<signature, sent, steps, caught>>
         ELSE IF payment_options.t = "throw"
         THEN /\ pc' = [pc EXCEPT ![c] = "failed"]
              /\ caught' = [caught EXCEPT ![c] = payment_options.error]
              /\ outcome' = [outcome EXCEPT ![c] =
                               Thrown(handleOneEpayError(payment_options.error))]
              /\ UNCHANGED <<signature, sent, steps>>
         ELSE /\ signature' = sig
              /\ sent' = [sent EXCEPT ![c] =
                            Append(@, CreateRequest(options[c], sig, accessToken))]
              /\ steps' = [steps EXCEPT ![c] = @ \o <<"sign", "submit">>]
              /\ pc' = [pc EXCEPT ![c] = "submitting"]
              /\ UNCHANGED <<outcome, caught>>
  /\ UNCHANGED <<clientId, clientSecret, accessToken, kind, options, held>>

\* the same for completeTransaction (lines 87-104)
CompleteValidated(c) ==
  /\ pc[c] = "validating"
  /\ kind[c] = "complete"
  /\ LET error == validateCompleteTransaction(options[c])
         sig == makeSignature(CompleteSignatureOptions(options[c]))
     IN  IF error # NoError
         THEN /\ pc' = [pc EXCEPT ![c] = "failed"]
              /\ outcome' = [outcome EXCEPT ![c] = Thrown(error)]
              /\ UNCHANGED <<signature, sent, steps>>
         ELSE /\ signature' = sig
              /\ sent' = [sent EXCEPT ![c] =
                            Append(@, CompleteRequest(options[c], sig, accessToken))]
              /\ steps' = [steps EXCEPT ![c] = @ \o <<"sign", "submit">>]
              /\ pc' = [pc EXCEPT ![c] = "submitting"]
              /\ UNCHANGED outcome
  /\ UNCHANGED <<clientId, clientSecret, accessToken, kind, options, held, caught>>

\* the transaction request succeeds: the call returns response.data
SubmitResolves(c, data) ==
  /\ pc[c] = "submitting"
  /\ pc' = [pc EXCEPT ![c] = "completed"]
  /\ outcome' = [outcome EXCEPT ![c] = Returned(data)]
  /\ UNCHANGED <<client, kind, options, held, sent, steps, caught>>

\* the transaction request fails: the catch block hands the error to
\* handleOneEpayError, which throws (lines 72-74, 109-111)
SubmitRejects(c, error) ==
  /\ pc[c] = "submitting"
  /\ pc' = [pc EXCEPT ![c] = "failed"]
  /\ caught' = [caught EXCEPT ![c] = error]
  /\ outcome' = [outcome EXCEPT ![c] = Thrown(handleOneEpayError(error))]
  /\ UNCHANGED <<client, kind, options, held, sent, steps>>

(***************************************************************************)
(* The inputs of the client as one instance is used by concurrent calls.   *)
(***************************************************************************)
ValidCreate ==
  Obj([UID |-> Str("X1"), totalAmount |-> Str("10.00"), totalQuantity |-> Num(2),
       paymentCode |-> Str("ABA"), paymentOptions |-> Obj([account |-> Str("acc")])])
InvalidCreate ==
  Obj([UID |-> Str("X1"), totalAmount |-> Str("10"), totalQuantity |-> Num(2),
       paymentCode |-> Str("ABA"), paymentOptions |-> Obj([account |-> Str("acc")])])
ValidComplete ==
  Obj([UID |-> Str("X1"), totalAmount |-> Str("10.00"), totalQuantity |-> Num(2),
       txid |-> Str("77"), securityCode |-> Str("0000"), ip |-> Str("10.0.0.1")])
InvalidComplete ==
  Obj([UID |-> Str("X1"), totalAmount |-> Str("10.00"), totalQuantity |-> Num(2),
       securityCode |-> Str("0000")])

CreateInputs == {ValidCreate, InvalidCreate}
CompleteInputs == {ValidComplete, InvalidComplete}
\* token responses: a body with a token, and one without access_token
TokenBodies == {Obj([access_token |-> Str("t1")]), Obj(NoFields)}
SubmitBodies == {Obj([state |-> Str("pending")])}
NetworkError == AxiosError("Network Error", Undef)
Unauthorized ==
  AxiosError("Request failed with status code 401",
             Response(Obj([message |-> Str("Unauthorized")])))
Failures == {Unauthorized}
\* error responses whose body is not of the documented shape: no body at all,
\* and an errors property that is a string
MalformedFailures ==
  {AxiosError("Request failed with status code 502", Response(Undef)),
   AxiosError("Request failed with status code 400",
              Response(Obj([errors |-> Str("abc"), message |-> Str("b")])))}
\* failures of the token request: of the documented shape, and malformed
AuthFailures ==
  {NetworkError, Unauthorized,
   AxiosError("Request failed with status code 400",
              Response(Obj([errors |-> Arr(<<Obj([message |-> Str("a")])>>),
                            reason |-> Str("c")])))}
  \cup MalformedFailures

Init ==
  /\ clientId = "id1"
  /\ clientSecret = "s1"
  /\ accessToken = Undef
  /\ signature = Undef
  /\ pc = [c \in Calls |-> NoCall.pc]
  /\ kind = [c \in Calls |-> NoCall.kind]
  /\ options = [c \in Calls |-> NoCall.options]
  /\ held = [c \in Calls |-> NoCall.held]
  /\ sent = [c \in Calls |-> NoCall.sent]
  /\ steps = [c \in Calls |-> NoCall.steps]
  /\ caught = [c \in Calls |-> NoCall.caught]
  /\ outcome = [c \in Calls |-> NoCall.outcome]

Next ==
  \E c \in Calls :
    \/ \E opts \in CreateInputs : createTransaction(c, opts)
    \/ \E opts \in CompleteInputs : completeTransaction(c, opts)
    \/ \E data \in TokenBodies : AuthenticateResolves(c, data)
    \/ \E error \in Failures : AuthenticateRejects(c, error)
    \/ AuthenticateThrown(c)
    \/ AfterAuthenticate(c)
    \/ CreateValidated(c)
    \/ CompleteValidated(c)
    \/ \E data \in SubmitBodies : SubmitResolves(c, data)
    \/ \E error \in Failures : SubmitRejects(c, error)

Spec == Init /\ [][Next]_vars

(***************************************************************************)
(* The same concurrent calls with valid options only and with every        *)
(* failure of the token request: a transport failure, error responses of   *)
(* the documented shape, malformed ones, and a token response without a    *)
(* body.                                                                   *)
(***************************************************************************)
NextAuthFailures ==
  \E c \in Calls :
    \/ createTransaction(c, ValidCreate)
    \/ completeTransaction(c, ValidComplete)
    \/ \E data \in TokenBodies \cup {Undef} : AuthenticateResolves(c, data)
    \/ \E error \in AuthFailures : AuthenticateRejects(c, error)
    \/ AuthenticateThrown(c)
    \/ AfterAuthenticate(c)
    \/ CreateValidated(c)
    \/ CompleteValidated(c)
    \/ \E data \in SubmitBodies : SubmitResolves(c, data)
    \/ \E error \in Failures : SubmitRejects(c, error)

SpecAuthFailures == Init /\ [][NextAuthFailures]_vars

(***************************************************************************)
(* The inputs of one call, widely drawn: options with any mix of missing,  *)
(* ill-typed and valid fields, every shape of error response, and a client *)
(* that is fresh or has completed an earlier call.                         *)
(***************************************************************************)
\* a property that is there unless its value is undefined
Prop(key, v) == IF v.t = "undefined" THEN NoFields ELSE key :> v

UIDValues == {Undef, Str("X1"), Str("X2"), Num(7)}
AmountValues == {Undef, Str("10.00"), Str(".50"), Str("10"), Str("1a.00"), Num(10)}
QuantityValues == {Undef, Num(2), Num(1), Str("two")}
CodeValues ==
  {Undef, Str("ABA"), Str("ACD"), Str("PNG"), Str("WIG"), Str("WIG_VPN"), Str("VISA")}
PaymentOptionsValues ==
  {Undef, Str("none"), Obj(NoFields),
   Obj([account |-> Str("acc")]),
   Obj([accountType |-> Str("saving")]),
   Obj([accountType |-> Str("saving"), account |-> Str("acc")]),
   Obj([paygoId |-> Str("p1")]),
   Obj([wingAccount |-> Str("w1")]),
   Obj([wingAccount |-> Str("w1"), wingSecurityCode |-> Str("1234")])}
DescriptionValues == {Undef, Str("Gift")}
IpValues == {Undef, Str("10.0.0.1")}
OneItem == Obj([name |-> Str("Pen"), qty |-> Num(3), unit_price |-> Str("2.50")])
ItemsValues == {Undef, Arr(<<>>), Arr(<<OneItem, OneItem>>)}

CreateOptions(uid, amount, quantity, code, po, description, ip, items) ==
  Obj(Prop("UID", uid) @@ Prop("totalAmount", amount) @@
      Prop("totalQuantity", quantity) @@ Prop("paymentCode", code) @@
      Prop("paymentOptions", po) @@ Prop("description", description) @@
      Prop("ip", ip) @@ Prop("items", items))

\* the required fields in every combination, without optional fields
WideCreateRequired ==
  { CreateOptions(uid, amount, quantity, code, po, Undef, Undef, Undef) :
      uid \in UIDValues, amount \in AmountValues, quantity \in QuantityValues,
      code \in CodeValues, po \in PaymentOptionsValues }

\* the optional fields in every combination, with well-typed required fields
WideCreateOptional ==
  { CreateOptions(uid, amount, quantity, code, po, description, ip, items) :
      uid \in {Str("X1"), Str("X2")}, amount \in {Str("10.00"), Str(".50")},
      quantity \in {Num(2), Num(1)}, code \in {Str("ABA"), Str("PNG")},
      po \in {Obj([paygoId |-> Str("p1")])},
      description \in DescriptionValues, ip \in IpValues, items \in ItemsValues }

WideCreateInputs == WideCreateRequired \cup WideCreateOptional

WideCompleteInputs ==
  { Obj(Prop("UID", uid) @@ Prop("totalAmount", amount) @@
        Prop("totalQuantity", quantity) @@ Prop("txid", txid) @@
        Prop("securityCode", code) @@ Prop("ip", ip)) :
      uid \in {Undef, Str("X1"), Str("X2"), Num(7)},
      amount \in {Undef, Str("10.00"), Str(".50"), Str("10")},
      quantity \in {Undef, Num(2), Num(1), Str("two")},
      txid \in {Undef, Str("77")}, code \in {Undef, Str("0000")},
      ip \in IpValues }

\* error responses: every combination of errors, message and reason
ErrorsValues ==
  {Undef, Arr(<<>>), Arr(<<Obj([message |-> Str("a")])>>),
   Arr(<<Obj([message |-> Str("a")]), Obj([message |-> Str("z")])>>)}
WideFailures ==
  {NetworkError, AxiosError("Request failed with status code 500", Response(Str("")))}
  \cup MalformedFailures \cup
  { AxiosError("Request failed with status code 400",
               Response(Obj(Prop("errors", errors) @@ Prop("message", message) @@
                            Prop("reason", reason)))) :
      errors \in ErrorsValues, message \in {Undef, Str(""), Str("b")},
      reason \in {Undef, Str("c")} }

\* token responses: also one without data and one with an empty body
WideTokenBodies == TokenBodies \cup {Undef, Str("")}

EarlierSignature(id, secret) ==
  Str(Sha1Base64(SignatureData(Str("X0"), Str("1.00"), Num(1), Str("Unknown IP"),
                               id, secret)))

InitInputs ==
  /\ \E credentials \in {<<"id1", "s1">>, <<"id2", "s2">>} :
       /\ clientId = credentials[1]
       /\ clientSecret = credentials[2]
  /\ \/ accessToken = Undef /\ signature = Undef
     \/ accessToken = Str("t0") /\ signature = EarlierSignature(clientId, clientSecret)
  /\ pc = [c \in Calls |-> NoCall.pc]
  /\ kind = [c \in Calls |-> NoCall.kind]
  /\ options = [c \in Calls |-> NoCall.options]
  /\ held = [c \in Calls |-> NoCall.held]
  /\ sent = [c \in Calls |-> NoCall.sent]
  /\ steps = [c \in Calls |-> NoCall.steps]
  /\ caught = [c \in Calls |-> NoCall.caught]
  /\ outcome = [c \in Calls |-> NoCall.outcome]

NextInputs ==
  \/ pc[1] = "idle" /\ \E opts \in WideCreateInputs : createTransaction(1, opts)
  \/ pc[1] = "idle" /\ \E opts \in WideCompleteInputs : completeTransaction(1, opts)
  \/ \E data \in WideTokenBodies : AuthenticateResolves(1, data)
  \/ \E error \in AuthFailures : AuthenticateRejects(1, error)
  \/ AuthenticateThrown(1)
  \/ AfterAuthenticate(1)
  \/ CreateValidated(1)
  \/ CompleteValidated(1)
  \/ \E data \in SubmitBodies : SubmitResolves(1, data)
  \/ pc[1] = "submitting" /\ \E error \in WideFailures : SubmitRejects(1, error)

SpecInputs == InitInputs /\ [][NextInputs]_vars

(***************************************************************************)
(* Properties                                                              *)
(***************************************************************************)
SubmitUrl(k) == IF k = "create" THEN CreateUrl ELSE CommitUrl
Submitted(c) == Len(sent[c]) = 2
SubmitRequest(c) == sent[c][2]

\* C1, as claimed: a call that completes sends one request, the submit, when
\* the client held a token as the call entered, and two, the authenticate
\* request and then the submit, only when it held none.
C1_AuthenticateOnlyWithoutToken ==
  \A c \in Calls :
    pc[c] = "completed" =>
      IF Truthy(held[c])
      THEN Len(sent[c]) = 1 /\ sent[c][1].url = SubmitUrl(kind[c])
      ELSE Len(sent[c]) = 2 /\ sent[c][1].url = AuthUrl
                            /\ sent[c][2].url = SubmitUrl(kind[c])

\* C1, amended: a call that completes has sent exactly two requests, the
\* authenticate request and then the submit, whether or not the client held
\* a token as the call entered; no call sends a second authenticate request.
C1_AuthenticateThenSubmit ==
  \A c \in Calls :
    /\ Cardinality({i \in DOMAIN sent[c] : sent[c][i].url = AuthUrl}) <= 1
    /\ pc[c] = "completed" =>
         /\ Len(sent[c]) = 2
         /\ sent[c][1] = AuthRequest
         /\ sent[c][2].url = SubmitUrl(kind[c])

C1_Witness ==
  \E c \in Calls :
    pc[c] = "completed" /\ Truthy(held[c]) /\ Len(sent[c]) = 2

\* whether an options object has a property
Has(opts, key) == key \in DOMAIN opts.o

C2_EmptyItemsKept ==
  /\ kind[1] = "create" /\ Submitted(1)
  /\ Has(options[1], "items")
  /\ options[1].o.items = Arr(<<>>)
  /\ SubmitRequest(1).data.items = Arr(<<>>)

\* the error the normalizer is to throw for a caught error, case by case in
\* the order of the claim; a present message or reason is a non-empty string
HasResponse(error) == error.response # Undef
Body(error) == error.response.o.data
NonEmptyErrors(body) ==
  body.t = "object" /\ Has(body, "errors")
    /\ body.o.errors.t = "array" /\ Len(body.o.errors.a) >= 1
Present(body, key) ==
  body.t = "object" /\ Has(body, key) /\ body.o[key].t = "string" /\ body.o[key].s # ""
Normalized(error) ==
  IF ~HasResponse(error) THEN error
  ELSE IF NonEmptyErrors(Body(error))
  THEN [name |-> "Error", message |-> Body(error).o.errors.a[1].o.message.s]
  ELSE IF Present(Body(error), "message") /\ Present(Body(error), "reason")
  THEN [name |-> "Error",
        message |-> Body(error).o.message.s \o " " \o Body(error).o.reason.s]
  ELSE IF Present(Body(error), "message")
  THEN [name |-> "Error", message |-> Body(error).o.message.s]
  ELSE error

\* C3: a call whose catch block received an error has thrown, and what it
\* threw is the first case of the chain that applies: the caught error
\* itself without a response, else errors[0].message for a non-empty errors
\* list, else "<message> <reason>", else the message, else the caught error.
\* The handler follows the chain on every body of the documented shape; on a
\* response without a body it throws a TypeError in place of the caught
\* error, and on an errors property that is a string it throws an Error with
\* an empty message in place of the message.
C3_ErrorPriorityChain ==
  \A c \in Calls :
    caught[c] # NoError =>
      /\ pc[c] \in {"rejected", "failed"}
      /\ pc[c] = "failed" => outcome[c] = Thrown(Normalized(caught[c]))

\* C4: every transaction request a call has sent carries a token in its
\* X-Auth header, and a call that holds no token after authentication has
\* failed with the 'Missing authentication' error without submitting.
C4_SubmitCarriesToken ==
  \A c \in Calls :
    /\ \A i \in DOMAIN sent[c] :
         sent[c][i].url \in {CreateUrl, CommitUrl} =>
           sent[c][i].headers["X-Auth"] \notin {"Bearer undefined", "Bearer "}
    /\ outcome[c] = Thrown(MissingAuthentication(kind[c])) => ~Submitted(c)

\* an error whose response body, if any, has the documented shape
Documented(error) ==
  \/ ~HasResponse(error)
  \/ /\ Body(error).t \in {"object", "string"}
     /\ Body(error).t = "object" /\ Has(Body(error), "errors")
          => Body(error).o.errors.t = "array"

\* the call's authenticate request has failed: authenticate() has thrown, or
\* the call has thrown what authenticate() threw
AuthenticateFailed(c) ==
  \/ pc[c] = "rejected"
  \/ pc[c] = "failed" /\ caught[c] # NoError /\ steps[c] = <<"authenticate">>

\* C5: when a call's authenticate request fails, the call ends as failed and
\* throws what the normalizer throws for the error caught, which for a body
\* of the documented shape is the error of the priority chain.  On the way
\* the call sends no request besides its one authenticate request, runs no
\* validation, and no step of it, from its entry on, writes this.accessToken:
\* the token is changed, if at all, by other calls.  The failed call takes no
\* further step.
C5_AuthenticateFailureStep ==
  \A c \in Calls :
    /\ (pc[c] = "idle" /\ pc'[c] = "authenticating") =>
         /\ accessToken' = accessToken
         /\ held'[c] = accessToken
    /\ (pc[c] = "authenticating" /\ pc'[c] = "rejected") =>
         /\ caught'[c] # NoError
         /\ outcome'[c] = Pending
         /\ sent'[c] = <<AuthRequest>>
         /\ steps'[c] = <<"authenticate">>
         /\ accessToken' = accessToken
    /\ pc[c] = "rejected" =>
         /\ pc'[c] \in {"rejected", "failed"}
         /\ caught'[c] = caught[c]
         /\ sent'[c] = <<AuthRequest>>
         /\ steps'[c] = <<"authenticate">>
         /\ pc'[c] = "failed" =>
              /\ outcome'[c] = Thrown(handleOneEpayError(caught[c]))
              /\ Documented(caught[c]) => outcome'[c] = Thrown(Normalized(caught[c]))
              /\ accessToken' = accessToken
    /\ (AuthenticateFailed(c) /\ pc[c] = "failed") =>
         /\ pc'[c] = "failed"
         /\ sent'[c] = sent[c] /\ steps'[c] = steps[c] /\ outcome'[c] = outcome[c]

C6_OnlyTokenWritten ==
  [][<<clientId, clientSecret, signature>>' = <<clientId, clientSecret, signature>>]_vars

\* the string makeSignature is to hash for a call's options
Concatenation(uid, amount, quantity, ip, id, secret) ==
  uid \o amount \o ToString(quantity) \o ip \o id \o secret
IpOf(opts) ==
  IF Has(opts, "ip") /\ opts.o.ip.s # "" THEN opts.o.ip.s ELSE "Unknown IP"
SignatureOf(opts, id, secret) ==
  Str(Sha1Base64(Concatenation(opts.o.UID.s, opts.o.totalAmount.s,
                               opts.o.totalQuantity.n, IpOf(opts), id, secret)))

\* C6, amended: the calls write two fields of the client, the access token
\* and the signature, and never the credentials.  The signature is written
\* only by the step in which a call submits, which stores the signature
\* computed from that call's options and sends it; it stays on the client
\* when the call has ended.
C6_TokenAndSignatureStep ==
  /\ clientId' = clientId
  /\ clientSecret' = clientSecret
  /\ \A c \in Calls :
       (pc[c] = "validating" /\ pc'[c] = "submitting") =>
         /\ signature' = SignatureOf(options[c], clientId, clientSecret)
         /\ SubmitRequest(c)'.data.signature = signature'
  /\ signature' # signature =>
       \E c \in Calls : pc[c] = "validating" /\ pc'[c] = "submitting"

C6_TokenAndSignatureWritten == [][C6_TokenAndSignatureStep]_vars

C6_Witness ==
  \E c \in Calls :
    /\ pc[c] = "completed"
    /\ kind[c] = "create"
    /\ outcome[c] # Pending
    /\ \A d \in Calls \ {c} : pc[d] = "idle"
    /\ signature = SignatureOf(options[c], clientId, clientSecret)
    /\ accessToken = Str("t1")

\* the create rules in the order of the claim: the fields UID, totalAmount,
\* totalQuantity, paymentCode, paymentOptions and the five subfields, each
\* with its rules in the order listed
C7_Order ==
  << [path |-> <<"UID">>, rule |-> Rule("required")],
     [path |-> <<"UID">>, rule |-> Rule("string")],
     [path |-> <<"totalAmount">>, rule |-> Rule("required")],
     [path |-> <<"totalAmount">>, rule |-> Rule("string")],
     [path |-> <<"totalAmount">>, rule |-> Rule("is_money")],
     [path |-> <<"totalQuantity">>, rule |-> Rule("required")],
     [path |-> <<"totalQuantity">>, rule |-> Rule("integer")],
     [path |-> <<"paymentCode">>, rule |-> Rule("required")],
     [path |-> <<"paymentCode">>, rule |-> RuleWith("in", PaymentCodes)],
     [path |-> <<"paymentOptions">>, rule |-> Rule("required")],
     [path |-> <<"paymentOptions">>, rule |-> Rule("object")],
     [path |-> <<"paymentOptions", "accountType">>,
      rule |-> RuleWith("required_when", <<"paymentCode", "ACD">>)],
     [path |-> <<"paymentOptions", "account">>,
      rule |-> RuleWith("required_when", <<"paymentCode", "ACD">>)],
     [path |-> <<"paymentOptions", "paygoId">>,
      rule |-> RuleWith("required_when", <<"paymentCode", "PNG">>)],
     [path |-> <<"paymentOptions", "wingAccount">>,
      rule |-> RuleWith("required_when", <<"paymentCode", "WIG_VPN">>)],
     [path |-> <<"paymentOptions", "wingAccount">>, rule |-> Rule("string")],
     [path |-> <<"paymentOptions", "wingSecurityCode">>,
      rule |-> RuleWith("required_when", <<"paymentCode", "WIG_VPN">>)],
     [path |-> <<"paymentOptions", "wingSecurityCode">>, rule |-> Rule("string")] >>

C7_Text(name) ==
  CASE name \in {"required", "required_when"} -> " field is missing."
    [] name = "string" -> " must be a string."
    [] name = "integer" -> " must be an integer."
    [] name = "is_money" -> " contains invalid amount."
    [] name = "object" -> " must be an object."
    [] name = "in" -> " must be of value ABA, ACD, PNG, WIG, or WIG_VPN."

Violated(opts) ==
  {i \in DOMAIN C7_Order : ~RulePasses(opts, C7_Order[i].path, C7_Order[i].rule)}
Least(S) == CHOOSE i \in S : \A j \in S : i <= j
FieldsOf(S) == {C7_Order[i].path : i \in S}

\* a call whose validation promise has settled
ValidationSettled(c) ==
  /\ Len(steps[c]) >= 2
  /\ steps[c][2] = "validate"
  /\ pc[c] # "validating"
ValidationFailed(c) ==
  /\ ValidationSettled(c)
  /\ steps[c] = <<"authenticate", "validate">>

\* C7: create validation passes when no rule is violated, and otherwise
\* throws one error whose message is that of the first violated rule in the
\* order of the claim, with the field's dotted path in it.
C7_FirstViolationOnly ==
  (kind[1] = "create" /\ ValidationSettled(1)) =>
    LET violated == Violated(options[1])
        first == C7_Order[Least(violated)]
    IN  IF violated = {} THEN ~ValidationFailed(1)
        ELSE /\ ValidationFailed(1)
             /\ pc[1] = "failed"
             /\ outcome[1] =
                  Thrown([name |-> "CreateTransactionError",
                          message |-> FieldName(first.path) \o C7_Text(first.rule.name)])

C7_Witness ==
  /\ kind[1] = "create"
  /\ ValidationFailed(1)
  /\ Cardinality(FieldsOf(Violated(options[1]))) >= 3
  /\ outcome[1].error.message = "totalQuantity must be an integer."

\* the subfields of paymentOptions a payment code requires
RequiredSubfields(code) ==
  CASE code = "ACD" -> {"accountType", "account"}
    [] code = "PNG" -> {"paygoId"}
    [] code = "WIG_VPN" -> {"wingAccount", "wingSecurityCode"}
    [] OTHER -> {}

\* C8: for create options whose UID, totalAmount, totalQuantity and
\* paymentCode are valid and whose paymentOptions is an object, possibly
\* empty, validation fails exactly when a subfield the payment code requires
\* is missing, and the error then names a missing subfield's dotted path.
C8_RequiredSubfields ==
  ( /\ kind[1] = "create"
    /\ ValidationSettled(1)
    /\ \A i \in 1..9 : i \notin Violated(options[1])
    /\ Has(options[1], "paymentOptions")
    /\ options[1].o.paymentOptions.t = "object" ) =>
    LET po == options[1].o.paymentOptions
        missing == {f \in RequiredSubfields(options[1].o.paymentCode.s) : ~Has(po, f)}
    IN  /\ ValidationFailed(1) <=> missing # {}
        /\ ValidationFailed(1) =>
             \E f \in missing :
               outcome[1].error.message = "paymentOptions." \o f \o " field is missing."

\* the six inputs of a call's signature
SignatureInputs(c) ==
  << options[c].o.UID.s, options[c].o.totalAmount.s, options[c].o.totalQuantity.n,
     IpOf(options[c]), clientId, clientSecret >>
Alternatives ==
  {"X1", "X2", "X"} \X {"10.00", ".50", "1.50"} \X {1, 2, 11}
    \X {"Unknown IP", "10.0.0.1"} \X {"id1", "id2"} \X {"s1", "s2"}
Differences(a, b) == Cardinality({i \in 1..6 : a[i] # b[i]})
Concatenated(a) == Concatenation(a[1], a[2], a[3], a[4], a[5], a[6])
SignatureFor(a) ==
  Str(Sha1Base64(SignatureData(Str(a[1]), Str(a[2]), Num(a[3]), Str(a[4]), a[5], a[6])))

\* C9: the signature a call sends is the digest of the concatenation of its
\* six inputs and of nothing else; inputs equal to the call's give the same
\* signature, and inputs that differ from the call's in exactly one of the
\* six give another concatenation and another signature.
C9_SignatureOfSixInputs ==
  \A c \in Calls :
    Submitted(c) =>
      LET inputs == SignatureInputs(c)
          sig == SubmitRequest(c).data.signature
      IN  /\ sig = Str(Sha1Base64(Concatenated(inputs)))
          /\ \A a \in Alternatives :
               /\ Differences(a, inputs) = 0 => SignatureFor(a) = sig
               /\ Differences(a, inputs) = 1 =>
                    /\ Concatenated(a) # Concatenated(inputs)
                    /\ SignatureFor(a) # sig

C9_Witness ==
  /\ Submitted(1)
  /\ kind[1] = "complete"
  /\ ~Has(options[1], "ip")
  /\ signature # Undef
  /\ held[1] = Str("t0")
  /\ SubmitRequest(1).data.signature =
       Str(Sha1Base64("X1" \o "10.00" \o "2" \o "Unknown IP" \o "id1" \o "s1"))

\* the steps of a call, in order
StepOrder == <<"authenticate", "validate", "sign", "submit">>
IsPrefix(s, t) == Len(s) <= Len(t) /\ SubSeq(t, 1, Len(s)) = s
ValidOptions(c) ==
  IF kind[c] = "create" THEN validateCreateTransaction(options[c]) = NoError
  ELSE validateCompleteTransaction(options[c]) = NoError
TransactionRequests(c) ==
  {i \in DOMAIN sent[c] : sent[c][i].url \in {CreateUrl, CommitUrl}}

\* C10: the steps a call has taken are a prefix of authenticate, validate,
\* sign, submit; the call has sent a transaction request exactly when it has
\* taken all four, and then its options passed validation; a call is
\* completed exactly when it returned, which follows a submit, and failed
\* exactly when it threw one error.
C10_StepsInOrder ==
  \A c \in Calls :
    /\ IsPrefix(steps[c], StepOrder)
    /\ Cardinality(TransactionRequests(c)) = (IF steps[c] = StepOrder THEN 1 ELSE 0)
    /\ TransactionRequests(c) # {} =>
         /\ ValidOptions(c)
         /\ sent[c] = <<AuthRequest, SubmitRequest(c)>>
         /\ SubmitRequest(c).url = SubmitUrl(kind[c])
    /\ pc[c] = "completed" <=> outcome[c].kind = "returned"
    /\ pc[c] = "failed" <=> outcome[c].kind = "thrown"
    /\ pc[c] = "completed" => steps[c] = StepOrder
    /\ pc[c] \in {"idle", "authenticating", "authenticated", "rejected", "validating",
                  "submitting", "completed", "failed"}

C10_Witness ==
  \E c \in Calls :
    /\ pc[c] = "failed"
    /\ ~ValidOptions(c)
    /\ steps[c] = <<"authenticate", "validate">>
    /\ sent[c] = <<AuthRequest>>
    /\ \E d \in Calls : pc[d] = "completed" /\ steps[d] = StepOrder

(***************************************************************************)
(* C11.  makeSignature writes this.signature (line 142) and the request    *)
(* body reads it back (lines 60, 99) in the same synchronous stretch: no   *)
(* await lies between lines 50 and 52-67, or between 92 and 95-104, so no  *)
(* other call runs between the write and the read.                         *)
(***************************************************************************)
InFlight(c) == pc[c] = "submitting"

\* C11: under every interleaving of concurrent calls on one client, the
\* signature in the body of each submitted transaction request is the one
\* computed from that call's own UID, totalAmount, totalQuantity and ip (with
\* the client's credentials), whatever other calls in flight have written to
\* the client's signature field.
C11_OwnSignatureSubmitted ==
  \A c \in Calls :
    Submitted(c) =>
      SubmitRequest(c).data.signature = SignatureOf(options[c], clientId, clientSecret)

\* two calls in flight whose signatures differ: the later one has overwritten
\* the client's field, the earlier one's request carries its own
C11_Witness ==
  \E c, d \in Calls :
    /\ c # d
    /\ InFlight(c) /\ InFlight(d)
    /\ Submitted(c) /\ Submitted(d)
    /\ signature = SubmitRequest(d).data.signature
    /\ signature # SubmitRequest(c).data.signature
    /\ SubmitRequest(c).data.signature = SignatureOf(options[c], clientId, clientSecret)

====
